---- MODULE Spec2Model ----
(***************************************************************************)
(* A model of dataset-stats (src/index.js): removeExtraProperties, group,  *)
(* ungroup, linearRegressionPredictor and batchPredict.                    *)
(*                                                                         *)
(* JavaScript objects and arrays live in a heap of cells addressed by      *)
(* their index, so that aliasing and in-place writes (push, property       *)
(* assignment, delete) are visible.  An object cell keeps its properties   *)
(* in insertion order, which is the order Object.keys reports.             *)
(*                                                                         *)
(* Numbers are exact rationals n/d; d = 0 stands for the non-finite        *)
(* results of a division by zero (0/0 is NaN, k/0 is +-Infinity).  The     *)
(* rounding of IEEE doubles is not modelled.                               *)
(***************************************************************************)
EXTENDS Integers, Sequences, FiniteSets, TLC

VARIABLES heap, heap0, data, op, args, ret, err, fit

vars == <<heap, heap0, data, op, args, ret, err, fit>>

-----------------------------------------------------------------------------
(* Bounds of the model.                                                    *)

MaxRecords == 2
MaxNewXs == 2
MaxPoints == 3

-----------------------------------------------------------------------------
(* JavaScript values.                                                      *)

Abs(i) == IF i < 0 THEN -i ELSE i

Sign(i) == IF i < 0 THEN -1 ELSE IF i > 0 THEN 1 ELSE 0

RECURSIVE Gcd(_, _)
Gcd(a, b) == IF b = 0 THEN a ELSE Gcd(b, a % b)

Rat(n, d) ==
    IF d = 0 THEN [t |-> "number", n |-> Sign(n), d |-> 0, s |-> ""]
    ELSE LET g == Gcd(Abs(n), Abs(d))
         IN  [t |-> "number", n |-> Sign(d) * (n \div g), d |-> Abs(d) \div g, s |-> ""]

Num(n) == [t |-> "number", n |-> n, d |-> 1, s |-> ""]

Str(s) == [t |-> "string", n |-> 0, d |-> 1, s |-> s]

Undefined == [t |-> "undefined", n |-> 0, d |-> 1, s |-> ""]

Ref(a) == [t |-> "ref", n |-> a, d |-> 1, s |-> ""]

NaN == Rat(0, 0)

IsNaN(v) == v.d = 0 /\ v.n = 0

IsInf(v) == v.d = 0 /\ v.n # 0

IsFinite(v) == v.t = "number" /\ v.d # 0

(* a + b on numbers *)
NumAdd(a, b) ==
    IF IsNaN(a) \/ IsNaN(b) THEN NaN
    ELSE IF IsInf(a) /\ IsInf(b) THEN (IF a.n = b.n THEN a ELSE NaN)
    ELSE IF IsInf(a) THEN a
    ELSE IF IsInf(b) THEN b
    ELSE Rat(a.n * b.d + b.n * a.d, a.d * b.d)

(* a * b on numbers *)
NumMul(a, b) ==
    IF IsNaN(a) \/ IsNaN(b) THEN NaN
    ELSE IF IsInf(a) \/ IsInf(b)
         THEN (IF a.n = 0 \/ b.n = 0 THEN NaN ELSE Rat(Sign(a.n) * Sign(b.n), 0))
    ELSE Rat(a.n * b.n, a.d * b.d)

(* a - b on numbers *)
NumSub(a, b) == NumAdd(a, NumMul(Num(-1), b))

(* a / b on numbers: a zero divisor gives NaN or an infinity, never an error *)
NumDiv(a, b) ==
    IF IsNaN(a) \/ IsNaN(b) THEN NaN
    ELSE IF IsInf(a) THEN (IF IsInf(b) THEN NaN
                           ELSE Rat(a.n * (IF b.n < 0 THEN -1 ELSE 1), 0))
    ELSE IF IsInf(b) THEN Num(0)
    ELSE Rat(a.n * b.d, a.d * b.n)

Digit(i) ==
    CASE i = 0 -> "0" [] i = 1 -> "1" [] i = 2 -> "2" [] i = 3 -> "3" [] i = 4 -> "4"
      [] i = 5 -> "5" [] i = 6 -> "6" [] i = 7 -> "7" [] i = 8 -> "8" [] i = 9 -> "9"

RECURSIVE NatToString(_)
NatToString(i) ==
    IF i < 10 THEN Digit(i) ELSE NatToString(i \div 10) \o Digit(i % 10)

(* The string Array.prototype.join makes of one element: undefined gives   *)
(* the empty string, a number its decimal form, a string itself.  The key  *)
(* values that reach it are the integers and strings of the input records. *)
ToJoinString(v) ==
    CASE v.t = "string" -> v.s
      [] v.t = "undefined" -> ""
      [] v.t = "number" /\ IsNaN(v) -> "NaN"
      [] v.t = "number" /\ IsInf(v) -> (IF v.n < 0 THEN "-Infinity" ELSE "Infinity")
      [] v.t = "number" /\ v.d = 1 ->
            (IF v.n < 0 THEN "-" \o NatToString(-v.n) ELSE NatToString(v.n))
      [] OTHER -> "[object]"

RECURSIVE Join(_, _)
Join(vals, sep) ==
    IF vals = <<>> THEN ""
    ELSE IF Len(vals) = 1 THEN ToJoinString(vals[1])
    ELSE ToJoinString(vals[1]) \o sep \o Join(Tail(vals), sep)

-----------------------------------------------------------------------------
(* Heap cells: objects and arrays.                                         *)

Obj(props) == [kind |-> "object", props |-> props, elems |-> <<>>]

Arr(elems) == [kind |-> "array", props |-> <<>>, elems |-> elems]

Range(s) == {s[i] : i \in 1..Len(s)}

(* Object.keys(o) *)
Keys(o) == [i \in 1..Len(o.props) |-> o.props[i].k]

(* o.hasOwnProperty(k) *)
HasOwn(o, k) == \E i \in 1..Len(o.props) : o.props[i].k = k

(* o[k] *)
Get(o, k) ==
    IF HasOwn(o, k)
    THEN o.props[CHOOSE i \in 1..Len(o.props) : o.props[i].k = k].v
    ELSE Undefined

(* o[k] = v: an existing property keeps its place, a new one goes last *)
Put(o, k, v) ==
    IF HasOwn(o, k)
    THEN Obj([i \in 1..Len(o.props) |->
                 IF o.props[i].k = k THEN [k |-> k, v |-> v] ELSE o.props[i]])
    ELSE Obj(Append(o.props, [k |-> k, v |-> v]))

(* delete o[k] *)
Delete(o, k) == Obj(SelectSeq(o.props, LAMBDA p : p.k # k))

(* a.includes(k) for an array of field names *)
Includes(a, k) == \E i \in 1..Len(a.elems) : a.elems[i] = Str(k)

IsArrayRef(h, v) == v.t = "ref" /\ h[v.n].kind = "array"

(* A call's outcome: the heap after it, the value returned, the error thrown. *)
Outcome(h, r, e) == [heap |-> h, ret |-> r, err |-> e]

(* The element of a singleton.  Pick({F(v) : v \in {e}}) is F(e) with e    *)
(* evaluated once, the way a JavaScript statement evaluates its operand    *)
(* before the next statement runs.                                         *)
Pick(S) == CHOOSE v \in S : TRUE

-----------------------------------------------------------------------------
(* removeExtraProperties, src/index.js:128-139                             *)

(* As FilteredObject, but built by walking allowedProperties instead of    *)
(* the item's own keys: a listed field the item lacks comes out undefined. *)
FilteredObjectFromAllowed(item, allowed) ==
    Obj([i \in 1..Len(allowed.elems) |->
            [k |-> allowed.elems[i].s, v |-> Get(item, allowed.elems[i].s)]])

(* The filteredObject of one item: a fresh object holding, in the item's   *)
(* key order, the item's properties that allowedProperties includes.       *)
FilteredObject(item, allowed) ==
    Obj(SelectSeq(item.props, LAMBDA p : Includes(allowed, p.k)))

removeExtraProperties(h, d, allowedProperties) ==
    LET items == h[d.n].elems
        n == Len(items)
        objs == [i \in 1..n |-> FilteredObject(h[items[i].n], h[allowedProperties.n])]
        h1 == h \o objs
        out == Arr([i \in 1..n |-> Ref(Len(h) + i)])
    IN  Outcome(Append(h1, out), Ref(Len(h1) + 1), "none")

-----------------------------------------------------------------------------
(* group, src/index.js:67-102                                              *)

(* As HasAllKeys, with some in place of every. *)
HasSomeKey(item, groupingKeys) ==
    \E i \in 1..Len(groupingKeys.elems) : HasOwn(item, groupingKeys.elems[i].s)

(* groupingKeys.every(key => item.hasOwnProperty(key)) *)
HasAllKeys(item, groupingKeys) ==
    \A i \in 1..Len(groupingKeys.elems) : HasOwn(item, groupingKeys.elems[i].s)

(* groupingKeys.map(key => item[key]).join('-') *)
CompositeKey(item, groupingKeys) ==
    Join([i \in 1..Len(groupingKeys.elems) |-> Get(item, groupingKeys.elems[i].s)], "-")

(* Object.keys(item).filter(key => !groupingKeys.includes(key)) *)
AggregatedProperties(item, groupingKeys) ==
    SelectSeq(Keys(item), LAMBDA k : ~Includes(groupingKeys, k))

(* result.find(entry => entry.key === key): the address of the first entry *)
(* whose routing key is the string, 0 when there is none                   *)
FindEntry(h, result, key) ==
    LET hits == {i \in 1..Len(result) : Get(h[result[i]], "key") = Str(key)}
    IN  IF hits = {} THEN 0
        ELSE result[CHOOSE i \in hits : \A j \in hits : i <= j]

(* As PushProperty, with unshift in place of push. *)
PushPropertyFront(h, entry, property, v) ==
    LET target == Get(h[entry], property)
    IN  IF IsArrayRef(h, target)
        THEN Outcome([h EXCEPT ![target.n] = Arr(<<v>> \o h[target.n].elems)],
                     Undefined, "none")
        ELSE Outcome(h, Undefined, "TypeError")

(* existingEntry[property].push(v): a TypeError unless the property holds  *)
(* an array                                                                *)
PushProperty(h, entry, property, v) ==
    LET target == Get(h[entry], property)
    IN  IF IsArrayRef(h, target)
        THEN Outcome([h EXCEPT ![target.n] = Arr(Append(h[target.n].elems, v))],
                     Undefined, "none")
        ELSE Outcome(h, Undefined, "TypeError")

(* aggregatedProperties.forEach(property => existingEntry[property].push(item[property])) *)
RECURSIVE PushAll(_, _, _, _, _)
PushAll(h, entry, item, props, i) ==
    IF i > Len(props) THEN Outcome(h, Undefined, "none")
    ELSE Pick({ IF r.err # "none" THEN r
                ELSE PushAll(r.heap, entry, item, props, i + 1) :
                r \in {PushProperty(h, entry, props[i], Get(h[item], props[i]))} })

(* As NewObject, with newEntry = item: the entry is the input record. *)
NewObjectAliased(h, item) == [heap |-> h, addr |-> item]

(* const newEntry = {}: a fresh object, at a new address *)
NewObject(h, item) == [heap |-> Append(h, Obj(<<>>)), addr |-> Len(h) + 1]

(* groupingKeys.forEach(key => newEntry[key] = item[key]) *)
RECURSIVE CopyKeys(_, _, _, _, _)
CopyKeys(h, entry, item, keys, i) ==
    IF i > Len(keys) THEN h
    ELSE Pick({ CopyKeys(h1, entry, item, keys, i + 1) :
                h1 \in {[h EXCEPT ![entry] =
                             Put(h[entry], keys[i].s, Get(h[item], keys[i].s))]} })

(* aggregatedProperties.forEach(property => newEntry[property] = [item[property]]) *)
RECURSIVE CollectAll(_, _, _, _, _)
CollectAll(h, entry, item, props, i) ==
    IF i > Len(props) THEN h
    ELSE Pick({ CollectAll(h2, entry, item, props, i + 1) :
                h2 \in {[h1 EXCEPT ![entry] = Put(h1[entry], props[i], Ref(Len(h1)))] :
                        h1 \in {Append(h, Arr(<<Get(h[item], props[i])>>))}} })

(* The else branch of the reducer, lines 81-93: build the new entry, set   *)
(* its routing key and push it on the result.                              *)
AddEntry(h, result, item, groupingKeys, key, props) ==
    LET Keyed(e, h2) ==
            [heap |-> [h2 EXCEPT ![e] = Put(h2[e], "key", Str(key))],
             result |-> Append(result, e),
             err |-> "none"]
        Collected(e, h1) ==
            Pick({ Keyed(e, h2) : h2 \in {CollectAll(h1, e, item, props, 1)} })
        Copied(fresh) ==
            Pick({ Collected(fresh.addr, h1) :
                   h1 \in {CopyKeys(fresh.heap, fresh.addr, item, groupingKeys.elems, 1)} })
    IN  Pick({ Copied(fresh) : fresh \in {NewObject(h, item)} })

(* One call of the reducer, lines 68-97; st is the heap, the accumulated   *)
(* result (the addresses of its entries) and the error thrown so far.      *)
GroupItem(st, item, K) ==
    LET h == st.heap
        groupingKeys == h[K.n]
    IN  IF ~HasAllKeys(h[item], groupingKeys) THEN st
        ELSE LET key == CompositeKey(h[item], groupingKeys)
                 props == AggregatedProperties(h[item], groupingKeys)
                 existingEntry == FindEntry(h, st.result, key)
             IN  IF existingEntry # 0
                 THEN Pick({ [heap |-> r.heap, result |-> st.result, err |-> r.err] :
                             r \in {PushAll(h, existingEntry, item, props, 1)} })
                 ELSE AddEntry(h, st.result, item, groupingKeys, key, props)

RECURSIVE GroupReduce(_, _, _, _)
GroupReduce(st, items, K, i) ==
    IF i > Len(items) \/ st.err # "none" THEN st
    ELSE Pick({ GroupReduce(next, items, K, i + 1) :
                next \in {GroupItem(st, items[i].n, K)} })

(* .map(item => { delete item.key; return item; }) *)
RECURSIVE DeleteKeys(_, _, _)
DeleteKeys(h, result, i) ==
    IF i > Len(result) THEN h
    ELSE Pick({ DeleteKeys(h1, result, i + 1) :
                h1 \in {[h EXCEPT ![result[i]] = Delete(h[result[i]], "key")]} })

group(h, array, K) ==
    LET Mapped(st) ==
            Pick({ Outcome(Append(h1, Arr([i \in 1..Len(st.result) |-> Ref(st.result[i])])),
                           Ref(Len(h1) + 1), "none") :
                   h1 \in {DeleteKeys(st.heap, st.result, 1)} })
    IN  Pick({ IF st.err # "none" THEN Outcome(st.heap, Undefined, st.err) ELSE Mapped(st) :
               st \in {GroupReduce([heap |-> h, result |-> <<>>, err |-> "none"],
                                   h[array.n].elems, K, 1)} })

-----------------------------------------------------------------------------
(* ungroup, src/index.js:165-187                                           *)

(* item[aggregatedProperties[0]].length.  With no non-key property the     *)
(* name is undefined and the lookup gives undefined, whose length is a     *)
(* TypeError; a number has no length, so the loop does not run (-1 here    *)
(* stands for the error, 0 for "no iteration").                            *)
FirstLength(h, item, props) ==
    LET v == IF props = <<>> THEN Get(item, "undefined") ELSE Get(item, props[1])
    IN  IF v.t = "undefined" THEN -1
        ELSE IF IsArrayRef(h, v) THEN Len(h[v.n].elems)
        ELSE IF v.t = "string" THEN Len(v.s)
        ELSE 0

(* item[property][i], i counted from 0: undefined past the end of the      *)
(* array.  In the calls modelled every non-key property that reaches       *)
(* ungroup holds an array: group stores one for each such field and        *)
(* batchPredict assigns arrays.                                            *)
ElementAt(h, v, i) ==
    IF IsArrayRef(h, v) /\ i + 1 <= Len(h[v.n].elems) THEN h[v.n].elems[i + 1]
    ELSE Undefined

(* The newItem of lines 172-180 for index i of one group entry. *)
NewItem(h, item, groupingKeys, props, i) ==
    LET keyPart == [j \in 1..Len(groupingKeys.elems) |->
                       [k |-> groupingKeys.elems[j].s,
                        v |-> Get(item, groupingKeys.elems[j].s)]]
        propPart == [j \in 1..Len(props) |->
                        [k |-> props[j], v |-> ElementAt(h, Get(item, props[j]), i)]]
        RECURSIVE Fill(_, _, _)
        Fill(o, ps, j) == IF j > Len(ps) THEN o ELSE Fill(Put(o, ps[j].k, ps[j].v), ps, j + 1)
    IN  Fill(Obj(<<>>), keyPart \o propPart, 1)

(* The body of array.forEach for one entry: the records it contributes, or *)
(* the TypeError of reading the length of undefined.                       *)
UngroupItem(h, item, groupingKeys) ==
    LET props == AggregatedProperties(item, groupingKeys)
        n == FirstLength(h, item, props)
    IN  IF n < 0 THEN [objs |-> <<>>, err |-> "TypeError"]
        ELSE [objs |-> [i \in 1..n |-> NewItem(h, item, groupingKeys, props, i - 1)],
              err |-> "none"]

RECURSIVE UngroupEach(_, _, _, _, _)
UngroupEach(h, items, groupingKeys, i, acc) ==
    IF i > Len(items) THEN [objs |-> acc, err |-> "none"]
    ELSE Pick({ IF r.err # "none" THEN [objs |-> acc, err |-> r.err]
                ELSE Pick({ UngroupEach(h, items, groupingKeys, i + 1, acc1) :
                            acc1 \in {acc \o r.objs} }) :
                r \in {UngroupItem(h, h[items[i].n], groupingKeys)} })

ungroup(h, array, K) ==
    LET NewArray(r) == Arr([i \in 1..Len(r.objs) |-> Ref(Len(h) + i)])
    IN  Pick({ IF r.err # "none" THEN Outcome(h \o r.objs, Undefined, r.err)
               ELSE Outcome((h \o r.objs) \o <<NewArray(r)>>,
                            Ref(Len(h) + Len(r.objs) + 1), "none") :
               r \in {UngroupEach(h, h[array.n].elems, h[K.n], 1, <<>>)} })

-----------------------------------------------------------------------------
(* linearRegressionPredictor, src/index.js:19-41                           *)

(* v.length: -1 stands for the TypeError of reading it from undefined *)
LengthOf(h, v) == IF IsArrayRef(h, v) THEN Len(h[v.n].elems) ELSE -1

(* values.reduce((sum, v) => sum + v, 0) *)
RECURSIVE Sum(_, _, _)
Sum(vals, i, sum) ==
    IF i > Len(vals) THEN sum
    ELSE Pick({ Sum(vals, i + 1, next) : next \in {NumAdd(sum, vals[i])} })

(* As InputError, with the length-one test first and loosened to <= 1. *)
InputErrorLengthFirst(xLength, yLength) ==
    IF xLength <= 1 THEN "InsufficientData"
    ELSE IF xLength # yLength THEN "InvalidInput"
    ELSE "none"

(* The guards of lines 20-26. *)
InputError(xLength, yLength) ==
    IF xLength # yLength \/ xLength = 0 THEN "InvalidInput"
    ELSE IF xLength = 1 THEN "InsufficientData"
    ELSE "none"

(* Lines 28-36: the slope and the intercept of the fitted line. *)
Fit(xs, ys) ==
    LET n == Num(Len(xs))
        Numerator(xMean, yMean) ==
            Pick({ Sum(terms, 1, Num(0)) :
                   terms \in {[i \in 1..Len(xs) |->
                                 NumMul(NumSub(xs[i], xMean), NumSub(ys[i], yMean))]} })
        Denominator(xMean) ==
            Pick({ Sum(terms, 1, Num(0)) :
                   terms \in {[i \in 1..Len(xs) |->
                                 NumMul(NumSub(xs[i], xMean), NumSub(xs[i], xMean))]} })
        Line(xMean, yMean) ==
            Pick({ [slope |-> slope, intercept |-> NumSub(yMean, NumMul(slope, xMean))] :
                   slope \in {NumDiv(Numerator(xMean, yMean), Denominator(xMean))} })
    IN  Pick({ Line(xMean, yMean) :
               xMean \in {NumDiv(Sum(xs, 1, Num(0)), n)},
               yMean \in {NumDiv(Sum(ys, 1, Num(0)), n)} })

NoFit == [slope |-> Num(0), intercept |-> Num(0)]

(* The call: the error thrown and the closure returned (its captured slope *)
(* and intercept).  xValues is an array; yValues an array or undefined.    *)
linearRegressionPredictor(h, xValues, yValues) ==
    LET xLength == LengthOf(h, xValues)
        yLength == LengthOf(h, yValues)
    IN  IF xLength < 0 \/ yLength < 0 THEN [err |-> "TypeError", predictor |-> NoFit]
        ELSE IF InputError(xLength, yLength) # "none"
             THEN [err |-> InputError(xLength, yLength), predictor |-> NoFit]
        ELSE [err |-> "none", predictor |-> Fit(h[xValues.n].elems, h[yValues.n].elems)]

(* As Predict, without the intercept. *)
PredictSlopeOnly(predictor, newX) == NumMul(predictor.slope, newX)

(* The returned function, lines 38-40: slope * newX + intercept *)
Predict(predictor, newX) == NumAdd(NumMul(predictor.slope, newX), predictor.intercept)

-----------------------------------------------------------------------------
(* batchPredict, src/index.js:230-245                                      *)

(* As KeepGroup, with length > 0. *)
KeepGroupNonEmpty(h, item, xKey) ==
    LET v == Get(item, xKey)
    IN  IF v.t = "undefined" THEN "error"
        ELSE IF IsArrayRef(h, v) THEN (IF Len(h[v.n].elems) > 0 THEN "keep" ELSE "drop")
        ELSE IF v.t = "string" THEN (IF Len(v.s) > 0 THEN "keep" ELSE "drop")
        ELSE "drop"

(* The filter predicate of line 235, item[xKey].length > 1: "error" when   *)
(* the entry has no such property.                                         *)
KeepGroup(h, item, xKey) ==
    LET v == Get(item, xKey)
    IN  IF v.t = "undefined" THEN "error"
        ELSE IF IsArrayRef(h, v) THEN (IF Len(h[v.n].elems) > 1 THEN "keep" ELSE "drop")
        ELSE IF v.t = "string" THEN (IF Len(v.s) > 1 THEN "keep" ELSE "drop")
        ELSE "drop"

RECURSIVE FilterGroups(_, _, _, _, _)
FilterGroups(h, items, xKey, i, acc) ==
    IF i > Len(items) THEN [kept |-> acc, err |-> "none"]
    ELSE Pick({ IF k = "error" THEN [kept |-> acc, err |-> "TypeError"]
                ELSE Pick({ FilterGroups(h, items, xKey, i + 1, acc1) :
                            acc1 \in {IF k = "keep" THEN Append(acc, items[i]) ELSE acc} }) :
                k \in {KeepGroup(h, h[items[i].n], xKey)} })

(* The map callback of lines 237-242 on one surviving entry. *)
PredictGroup(h, item, xKey, yKey, newXs) ==
    LET Predicted(predictor, h1) ==
            Arr([i \in 1..Len(h1[newXs.n].elems) |-> Predict(predictor, h1[newXs.n].elems[i])])
        Assigned(predictor) ==
            Pick({ Outcome([h2 EXCEPT ![item] = Put(h2[item], yKey, Ref(Len(h2)))],
                           Ref(item), "none") :
                   h2 \in {Append(h1, Predicted(predictor, h1)) :
                           h1 \in {[h EXCEPT ![item] = Put(h[item], xKey, newXs)]}} })
    IN  Pick({ IF r.err # "none" THEN Outcome(h, Undefined, r.err)
               ELSE Assigned(r.predictor) :
               r \in {linearRegressionPredictor(h, Get(h[item], xKey), Get(h[item], yKey))} })

RECURSIVE PredictEach(_, _, _, _, _, _)
PredictEach(h, items, xKey, yKey, newXs, i) ==
    IF i > Len(items) THEN Outcome(h, Undefined, "none")
    ELSE Pick({ IF r.err # "none" THEN r
                ELSE PredictEach(r.heap, items, xKey, yKey, newXs, i + 1) :
                r \in {PredictGroup(h, items[i].n, xKey, yKey, newXs)} })

batchPredict(h, d, K, xKey, yKey, newXs) ==
    LET allowedKeys == Arr(h[K.n].elems \o <<Str(xKey), Str(yKey)>>)
        (* line 244 *)
        Ungrouped(kept, predicted) ==
            IF predicted.err # "none" THEN Outcome(predicted.heap, Undefined, predicted.err)
            ELSE Pick({ ungroup(h2, Ref(Len(h2)), K) :
                        h2 \in {Append(predicted.heap, Arr(kept))} })
        (* lines 237-242 *)
        Mapped(grouped, filtered) ==
            IF filtered.err # "none" THEN Outcome(grouped.heap, Undefined, filtered.err)
            ELSE Pick({ Ungrouped(filtered.kept, predicted) :
                        predicted \in {PredictEach(grouped.heap, filtered.kept,
                                                   xKey, yKey, newXs, 1)} })
        (* line 235, the filter *)
        Filtered(grouped) ==
            IF grouped.err # "none" THEN Outcome(grouped.heap, Undefined, grouped.err)
            ELSE Pick({ Mapped(grouped, filtered) :
                        filtered \in {FilterGroups(grouped.heap,
                                                   grouped.heap[grouped.ret.n].elems,
                                                   xKey, 1, <<>>)} })
        (* line 235, the group *)
        Grouped(projected) ==
            Pick({ Filtered(grouped) : grouped \in {group(projected.heap, projected.ret, K)} })
        (* line 233 *)
        Projected(h1) ==
            Pick({ Grouped(projected) :
                   projected \in {removeExtraProperties(h1, d, Ref(Len(h1)))} })
    IN  Pick({ Projected(h1) : h1 \in {Append(h, allowedKeys)} })

-----------------------------------------------------------------------------
(* batchPredict of src/unnamed/part_000:44-59, which delegates the fit to  *)
(* the imported linearRegression and linearRegressionLine.  Its group,     *)
(* removeExtraProperties and ungroup (part_000:85-205) are the functions   *)
(* of src/index.js line for line.                                          *)

(* Line 52, item[xKey].map((x, i) => [x, item[yKey][i]]): the pairs, or    *)
(* the TypeError of calling map on what is no array or of indexing         *)
(* undefined.                                                              *)
Zipped(h, item, xKey, yKey) ==
    LET xv == Get(item, xKey)
        yv == Get(item, yKey)
    IN  IF ~IsArrayRef(h, xv) THEN [pairs |-> <<>>, err |-> "TypeError"]
        ELSE IF Len(h[xv.n].elems) > 0 /\ yv.t = "undefined"
             THEN [pairs |-> <<>>, err |-> "TypeError"]
        ELSE [pairs |-> [i \in 1..Len(h[xv.n].elems) |->
                            <<h[xv.n].elems[i], ElementAt(h, yv, i - 1)>>],
              err |-> "none"]

(* The imported utility, called on two or more pairs (line 49 keeps no     *)
(* shorter column): the least-squares line of the pairs, the line Fit      *)
(* computes.  Its sums are NaN when a coordinate is not a number.          *)
linearRegression(zipped) ==
    IF \E i \in 1..Len(zipped) : zipped[i][1].t # "number" \/ zipped[i][2].t # "number"
    THEN [slope |-> NaN, intercept |-> NaN]
    ELSE Pick({ Fit(xs, ys) : xs \in {[i \in 1..Len(zipped) |-> zipped[i][1]]},
                              ys \in {[i \in 1..Len(zipped) |-> zipped[i][2]]} })

(* The function linearRegressionLine returns: the line's value at x. *)
linearRegressionLine(mb, x) == Predict(mb, x)

(* The map callback of lines 51-56 on one surviving entry: item[yKey] is   *)
(* assigned, item[xKey] is not.                                            *)
PredictGroupWithUtility(h, item, xKey, yKey, newXs) ==
    LET Predicted(predictor) ==
            Arr([i \in 1..Len(h[newXs.n].elems) |->
                    linearRegressionLine(predictor, h[newXs.n].elems[i])])
        Assigned(predictor) ==
            Pick({ Outcome([h1 EXCEPT ![item] = Put(h1[item], yKey, Ref(Len(h1)))],
                           Ref(item), "none") :
                   h1 \in {Append(h, Predicted(predictor))} })
    IN  Pick({ IF z.err # "none" THEN Outcome(h, Undefined, z.err)
               ELSE Pick({ Assigned(predictor) : predictor \in {linearRegression(z.pairs)} }) :
               z \in {Zipped(h, h[item], xKey, yKey)} })

RECURSIVE PredictEachWithUtility(_, _, _, _, _, _)
PredictEachWithUtility(h, items, xKey, yKey, newXs, i) ==
    IF i > Len(items) THEN Outcome(h, Undefined, "none")
    ELSE Pick({ IF r.err # "none" THEN r
                ELSE PredictEachWithUtility(r.heap, items, xKey, yKey, newXs, i + 1) :
                r \in {PredictGroupWithUtility(h, items[i].n, xKey, yKey, newXs)} })

batchPredictWithUtility(h, d, K, xKey, yKey, newXs) ==
    LET allowedKeys == Arr(h[K.n].elems \o <<Str(xKey), Str(yKey)>>)
        (* line 58 *)
        Ungrouped(kept, predicted) ==
            IF predicted.err # "none" THEN Outcome(predicted.heap, Undefined, predicted.err)
            ELSE Pick({ ungroup(h2, Ref(Len(h2)), K) :
                        h2 \in {Append(predicted.heap, Arr(kept))} })
        (* lines 51-56 *)
        Mapped(grouped, filtered) ==
            IF filtered.err # "none" THEN Outcome(grouped.heap, Undefined, filtered.err)
            ELSE Pick({ Ungrouped(filtered.kept, predicted) :
                        predicted \in {PredictEachWithUtility(grouped.heap, filtered.kept,
                                                              xKey, yKey, newXs, 1)} })
        (* line 49, the filter *)
        Filtered(grouped) ==
            IF grouped.err # "none" THEN Outcome(grouped.heap, Undefined, grouped.err)
            ELSE Pick({ Mapped(grouped, filtered) :
                        filtered \in {FilterGroups(grouped.heap,
                                                   grouped.heap[grouped.ret.n].elems,
                                                   xKey, 1, <<>>)} })
        (* line 49, the group *)
        Grouped(projected) ==
            Pick({ Filtered(grouped) : grouped \in {group(projected.heap, projected.ret, K)} })
        (* line 47 *)
        Projected(h1) ==
            Pick({ Grouped(projected) :
                   projected \in {removeExtraProperties(h1, d, Ref(Len(h1)))} })
    IN  Pick({ Projected(h1) : h1 \in {Append(h, allowedKeys)} })

-----------------------------------------------------------------------------
(* The inputs the calls are checked on.                                    *)

P(k, v) == [k |-> k, v |-> v]

(* Records: a field maps to a number or a string.  The pool holds records  *)
(* with and without the grouping fields g and h, the independent field x   *)
(* and the dependent field y, keys that differ in type or in where the     *)
(* separator falls, an extra field z, and a field named key.               *)
RecordPool ==
    { <<P("g", Str("a")), P("x", Num(1)), P("y", Num(1))>>,
      <<P("g", Str("a")), P("x", Num(2)), P("y", Num(3))>>,
      <<P("g", Str("b")), P("x", Num(3)), P("y", Num(2)), P("z", Num(7))>>,
      <<P("g", Num(1)), P("y", Num(2)), P("x", Num(1))>>,
      <<P("g", Str("1")), P("x", Num(2)), P("y", Num(1))>>,
      <<P("g", Str("a")), P("x", Num(3))>>,
      <<P("x", Num(1)), P("y", Num(1))>>,
      <<P("g", Str("a")), P("key", Num(1)), P("x", Num(1)), P("y", Num(1))>>,
      <<P("g", Str("a")), P("key", Num(2)), P("x", Num(3)), P("y", Num(2))>>,
      <<P("g", Str("b"))>>,
      <<P("g", Str("a")), P("h", Str("b-c")), P("x", Num(1)), P("y", Num(1))>>,
      <<P("g", Str("a-b")), P("h", Str("c")), P("x", Num(2)), P("y", Num(2))>> }

SeqsUpTo(S, n) == UNION {[1..m -> S] : m \in 0..n}

DataSeqs == SeqsUpTo(RecordPool, MaxRecords)

KeyLists == { <<"g">>, <<"g", "h">>, <<"key">> }

AllowedLists == { <<"g", "x", "y">>, <<"y", "z", "q">>, <<>> }

(* (xKey, yKey) of a batchPredict call: distinct and not grouping keys *)
XYKeys == { <<"x", "y">>, <<"key", "y">>, <<"y", "key">> }

NewXValues == {4, 5}

NewXSeqs == SeqsUpTo(NewXValues, MaxNewXs)

PointValues == {0, 1, 2}

PointSeqs == SeqsUpTo(PointValues, MaxPoints)

NameArray(names) == Arr([i \in 1..Len(names) |-> Str(names[i])])

NumberArray(nums) == Arr([i \in 1..Len(nums) |-> Num(nums[i])])

(* The documented example of a perfectly collinear fit: x = 1..6, y = 2x,  *)
(* asked for its predictions at 7 and 8.                                   *)
ExampleXs == <<1, 2, 3, 4, 5, 6>>

ExampleYs == <<2, 4, 6, 8, 10, 12>>

ExampleNewXs == {7, 8}

(* (xValues, yValues) of a direct linearRegressionPredictor call *)
PointPairs == (PointSeqs \X PointSeqs) \cup {<<ExampleXs, ExampleYs>>}

(* newX of a call of the returned function *)
PredictorArguments == PointValues \cup NewXValues \cup ExampleNewXs

NoArgs == [array |-> Undefined, K |-> Undefined, allowed |-> Undefined,
           xKey |-> "", yKey |-> "", newXs |-> Undefined, newX |-> Undefined]

-----------------------------------------------------------------------------
(* The calls.  heap0 is the heap when the call starts, its arguments       *)
(* allocated; args names them.                                             *)

Init ==
    \E recs \in DataSeqs :
        /\ heap = [i \in 1..Len(recs) |-> Obj(recs[i])]
                    \o <<Arr([i \in 1..Len(recs) |-> Ref(i)])>>
        /\ heap0 = heap
        /\ data = Ref(Len(recs) + 1)
        /\ op = "init"
        /\ args = NoArgs
        /\ ret = Undefined
        /\ err = "none"
        /\ fit = NoFit

Finish(r) ==
    /\ heap' = r.heap
    /\ ret' = r.ret
    /\ err' = r.err

CallRemoveExtraProperties ==
    /\ op = "init"
    /\ \E A \in AllowedLists :
          LET h == Append(heap, NameArray(A))
              allowed == Ref(Len(h))
          IN  /\ heap0' = h
              /\ args' = [NoArgs EXCEPT !.array = data, !.allowed = allowed]
              /\ \E r \in {removeExtraProperties(h, data, allowed)} : Finish(r)
    /\ op' = "removeExtraProperties"
    /\ UNCHANGED <<data, fit>>

CallGroup ==
    /\ op = "init"
    /\ \E keys \in KeyLists :
          LET h == Append(heap, NameArray(keys))
              K == Ref(Len(h))
          IN  /\ heap0' = h
              /\ args' = [NoArgs EXCEPT !.array = data, !.K = K]
              /\ \E r \in {group(h, data, K)} : Finish(r)
    /\ op' = "group"
    /\ UNCHANGED <<data, fit>>

(* ungroup(group(data, K), K): the call that follows a group that returned *)
CallUngroup ==
    /\ op = "group"
    /\ err = "none"
    /\ heap0' = heap
    /\ args' = [NoArgs EXCEPT !.array = ret, !.K = args.K]
    /\ \E r \in {ungroup(heap, ret, args.K)} : Finish(r)
    /\ op' = "ungroup"
    /\ UNCHANGED <<data, fit>>

CallBatchPredict ==
    /\ op = "init"
    /\ \E keys \in KeyLists, xy \in XYKeys, xs \in NewXSeqs :
          /\ xy[1] \notin Range(keys)
          /\ xy[2] \notin Range(keys)
          /\ LET h1 == Append(heap, NameArray(keys))
                 K == Ref(Len(h1))
                 h2 == Append(h1, NumberArray(xs))
                 newXs == Ref(Len(h2))
             IN
              /\ heap0' = h2
              /\ args' = [NoArgs EXCEPT !.array = data, !.K = K, !.xKey = xy[1],
                                        !.yKey = xy[2], !.newXs = newXs]
              /\ \E r \in {batchPredict(h2, data, K, xy[1], xy[2], newXs)} : Finish(r)
    /\ op' = "batchPredict"
    /\ UNCHANGED <<data, fit>>

(* The same call on the batchPredict of src/unnamed/part_000. *)
CallBatchPredictWithUtility ==
    /\ op = "init"
    /\ \E keys \in KeyLists, xy \in XYKeys, xs \in NewXSeqs :
          /\ xy[1] \notin Range(keys)
          /\ xy[2] \notin Range(keys)
          /\ LET h1 == Append(heap, NameArray(keys))
                 K == Ref(Len(h1))
                 h2 == Append(h1, NumberArray(xs))
                 newXs == Ref(Len(h2))
             IN
              /\ heap0' = h2
              /\ args' = [NoArgs EXCEPT !.array = data, !.K = K, !.xKey = xy[1],
                                        !.yKey = xy[2], !.newXs = newXs]
              /\ \E r \in {batchPredictWithUtility(h2, data, K, xy[1], xy[2], newXs)} :
                    Finish(r)
    /\ op' = "batchPredictWithUtility"
    /\ UNCHANGED <<data, fit>>

Next ==
    \/ CallRemoveExtraProperties
    \/ CallGroup
    \/ CallUngroup
    \/ CallBatchPredict
    \/ CallBatchPredictWithUtility

Spec == Init /\ [][Next]_vars

-----------------------------------------------------------------------------
(* Direct use of the Regressor: a fit, then calls of the returned function. *)

InitRegressor ==
    /\ heap = <<>>
    /\ heap0 = heap
    /\ data = Undefined
    /\ op = "init"
    /\ args = NoArgs
    /\ ret = Undefined
    /\ err = "none"
    /\ fit = NoFit

(* args.array and args.newXs name xValues and yValues *)
CallLinearRegressionPredictor ==
    /\ op = "init"
    /\ \E xy \in PointPairs :
          LET h == <<NumberArray(xy[1]), NumberArray(xy[2])>>
          IN  /\ heap' = h
              /\ heap0' = h
              /\ args' = [NoArgs EXCEPT !.array = Ref(1), !.newXs = Ref(2)]
              /\ \E r \in {linearRegressionPredictor(h, Ref(1), Ref(2))} :
                    /\ err' = r.err
                    /\ fit' = r.predictor
    /\ op' = "linearRegressionPredictor"
    /\ ret' = Undefined
    /\ UNCHANGED data

CallPredictor ==
    /\ op = "linearRegressionPredictor"
    /\ err = "none"
    /\ \E newX \in PredictorArguments :
          /\ args' = [args EXCEPT !.newX = Num(newX)]
          /\ ret' = Predict(fit, Num(newX))
    /\ op' = "predictor"
    /\ UNCHANGED <<heap, heap0, data, err, fit>>

NextRegressor ==
    \/ CallLinearRegressionPredictor
    \/ CallPredictor

SpecRegressor == InitRegressor /\ [][NextRegressor]_vars

-----------------------------------------------------------------------------
(* What the properties read off a state.                                   *)

(* A value with the array it refers to, if any, written out. *)
Deep(h, v) ==
    IF IsArrayRef(h, v)
    THEN [t |-> "array", n |-> 0, d |-> 1, s |-> "", a |-> h[v.n].elems]
    ELSE [t |-> v.t, n |-> v.n, d |-> v.d, s |-> v.s, a |-> <<>>]

FieldsOf(o) == Range(Keys(o))

(* An object up to the order of its fields. *)
AsMap(h, o) == [k \in FieldsOf(o) |-> Deep(h, Get(o, k))]

(* The records of the array argument, as they were when the call started. *)
InputItems == heap0[args.array.n].elems

InputRecord(i) == heap0[InputItems[i].n]

(* The objects of the array the call returned. *)
OutputItems == heap[ret.n].elems

OutputObject(i) == heap[OutputItems[i].n]

KeyNames == [i \in 1..Len(heap0[args.K.n].elems) |-> heap0[args.K.n].elems[i].s]

AllowedNames == {heap0[args.allowed.n].elems[i].s : i \in 1..Len(heap0[args.allowed.n].elems)}

Indices(n, Test(_)) == SelectSeq([i \in 1..n |-> i], Test)

(* The input records that have every grouping-key field, by index. *)
Qualifies(i) == \A k \in Range(KeyNames) : HasOwn(InputRecord(i), k)

(* The composite key of an input record under the call's key list. *)
RoutingKey(i) == CompositeKey(InputRecord(i), heap0[args.K.n])

(* The first record of each group, in input order, and a group's members. *)
Leaders ==
    Indices(Len(InputItems),
            LAMBDA i : /\ Qualifies(i)
                       /\ \A j \in 1..(i - 1) : Qualifies(j) => RoutingKey(j) # RoutingKey(i))

Members(leader) ==
    Indices(Len(InputItems),
            LAMBDA i : Qualifies(i) /\ RoutingKey(i) = RoutingKey(leader))

Returned == err = "none" /\ IsArrayRef(heap, ret)

-----------------------------------------------------------------------------
(* C9: removeExtraProperties(D, A) returns a sequence of the same length   *)
(* and order as D whose i-th record has exactly the fields of D[i] that A  *)
(* lists, each with D[i]'s value; a field of A that D[i] lacks is absent   *)
(* from the output, and no error is raised.                                *)
C9_ProjectionKeepsListedFields ==
    op = "removeExtraProperties" =>
        /\ Returned
        /\ Len(OutputItems) = Len(InputItems)
        /\ \A i \in 1..Len(InputItems) :
              /\ FieldsOf(OutputObject(i)) = FieldsOf(InputRecord(i)) \cap AllowedNames
              /\ Len(OutputObject(i).props) = Cardinality(FieldsOf(OutputObject(i)))
              /\ \A k \in FieldsOf(OutputObject(i)) :
                    Get(OutputObject(i), k) = Get(InputRecord(i), k)

(* A projection that drops a field, keeps a field, and is asked for a      *)
(* field the record lacks.                                                 *)
C9_Witness ==
    /\ op = "removeExtraProperties"
    /\ Returned
    /\ \E i \in 1..Len(InputItems) :
          /\ FieldsOf(InputRecord(i)) \ AllowedNames # {}
          /\ FieldsOf(InputRecord(i)) \cap AllowedNames # {}
          /\ AllowedNames \ FieldsOf(InputRecord(i)) # {}
          /\ FieldsOf(OutputObject(i)) # {}

-----------------------------------------------------------------------------
(* C5: removeExtraProperties, group, ungroup and batchPredict leave their  *)
(* arguments unchanged: every object and array that existed when the call  *)
(* started (the input sequence, its records or group entries, the key      *)
(* list, newXs) holds after the call what it held before.                  *)
C5_ArgumentsUnchanged ==
    op \in {"removeExtraProperties", "group", "ungroup", "batchPredict"} =>
        /\ Len(heap) >= Len(heap0)
        /\ \A a \in 1..Len(heap0) : heap[a] = heap0[a]

(* A batchPredict that fitted a group and wrote newXs and the predictions  *)
(* into its entry.                                                         *)
C5_Witness ==
    /\ op = "batchPredict"
    /\ Returned
    /\ Len(OutputItems) > 0
    /\ Len(heap0[args.newXs.n].elems) > 0

-----------------------------------------------------------------------------
(* C6: group(R, K) never places a record that lacks a field of K into a    *)
(* group and raises no error for it: its outcome is that of group(R', K),  *)
(* R' being R without those records.                                       *)

(* The entries of a returned array, each with its fields in order. *)
EntriesOf(h, r) ==
    [i \in 1..Len(h[r.n].elems) |->
        [j \in 1..Len(h[h[r.n].elems[i].n].props) |->
            [k |-> h[h[r.n].elems[i].n].props[j].k,
             v |-> Deep(h, h[h[r.n].elems[i].n].props[j].v)]]]

(* group(R', K), evaluated on the heap the call started from *)
GroupOfQualifying ==
    Pick({ group(h, Ref(Len(h)), args.K) :
           h \in {Append(heap0, Arr(SelectSeq(InputItems,
                     LAMBDA r : \A k \in Range(KeyNames) : HasOwn(heap0[r.n], k))))} })

C6_RecordsLackingKeySkipped ==
    op = "group" =>
        Pick({ /\ err = other.err
               /\ err = "none" => EntriesOf(heap, ret) = EntriesOf(other.heap, other.ret) :
               other \in {GroupOfQualifying} })

(* A group call that returned entries for an input holding a record that   *)
(* lacks a key field.                                                      *)
C6_Witness ==
    /\ op = "group"
    /\ Returned
    /\ Len(OutputItems) > 0
    /\ \E i \in 1..Len(InputItems) : ~Qualifies(i)

-----------------------------------------------------------------------------
(* C3: linearRegressionPredictor(x, y) fails with InvalidInput exactly     *)
(* when the sequences differ in length or are empty, with InsufficientData *)
(* exactly when both have length one, and otherwise returns a predictor.   *)
C3_RegressorErrors ==
    op = "linearRegressionPredictor" =>
        LET nx == Len(heap0[args.array.n].elems)
            ny == Len(heap0[args.newXs.n].elems)
        IN  /\ err = "InvalidInput" <=> (nx # ny \/ nx = 0)
            /\ err = "InsufficientData" <=> (nx = 1 /\ ny = 1)
            /\ err = "none" <=> (nx = ny /\ nx >= 2)

(* The one-pair call. *)
C3_Witness ==
    /\ op = "linearRegressionPredictor"
    /\ err = "InsufficientData"
    /\ Len(heap0[args.array.n].elems) = 1

-----------------------------------------------------------------------------
(* C8.  The j-th entry group returns is the group of the j-th first        *)
(* occurrence of a composite key; its member records are the qualifying    *)
(* records with that composite key, in input order.                        *)

NonKeyFields(o) == FieldsOf(o) \ Range(KeyNames)

ColumnOf(j, p) == Deep(heap, Get(OutputObject(j), p))

(* C8 as stated: in every entry returned by group(R, K), each non-key      *)
(* field holds a sequence as long as the group has member records, whose   *)
(* i-th element is the i-th member record's value for the field.           *)
C8_ColumnPerMember ==
    (op = "group" /\ Returned) =>
        \A j \in 1..Len(OutputItems) :
            /\ j <= Len(Leaders)
            /\ \A p \in NonKeyFields(OutputObject(j)) :
                  LET ms == Members(Leaders[j])
                  IN  /\ ColumnOf(j, p).t = "array"
                      /\ Len(ColumnOf(j, p).a) = Len(ms)
                      /\ \A i \in 1..Len(ms) :
                            ColumnOf(j, p).a[i] = Get(InputRecord(ms[i]), p)

(* C8 amended: in every entry returned by group(R, K), each non-key field  *)
(* holds a sequence whose i-th element is the field's value in the i-th    *)
(* member record that carries the field, in encounter order; its length is *)
(* the number of member records when every member carries the field.       *)
C8_ColumnPerCarrier ==
    (op = "group" /\ Returned) =>
        \A j \in 1..Len(OutputItems) :
            /\ j <= Len(Leaders)
            /\ \A p \in NonKeyFields(OutputObject(j)) :
                  LET ms == Members(Leaders[j])
                      carriers == SelectSeq(ms, LAMBDA i : HasOwn(InputRecord(i), p))
                  IN  /\ ColumnOf(j, p).t = "array"
                      /\ Len(ColumnOf(j, p).a) = Len(carriers)
                      /\ \A i \in 1..Len(carriers) :
                            ColumnOf(j, p).a[i] = Get(InputRecord(carriers[i]), p)
                      /\ (\A i \in Range(ms) : HasOwn(InputRecord(i), p))
                            => Len(ColumnOf(j, p).a) = Len(ms)

(* A group of two members that both carry a field, with different values. *)
C8_Witness ==
    /\ op = "group"
    /\ Returned
    /\ \E j \in 1..Len(OutputItems) : \E p \in NonKeyFields(OutputObject(j)) :
          /\ Len(Members(Leaders[j])) = 2
          /\ Len(ColumnOf(j, p).a) = 2
          /\ ColumnOf(j, p).a[1] # ColumnOf(j, p).a[2]

-----------------------------------------------------------------------------
(* C4.                                                                     *)

RegressorErrors == {"InvalidInput", "InsufficientData"}

(* C4 as stated: no call of batchPredict, whatever fields its records      *)
(* lack, raises a Regressor error.                                         *)
C4_NoRegressorError ==
    op = "batchPredict" => err \notin RegressorErrors

(* C4 amended: no call of batchPredict raises InsufficientData, and none   *)
(* raises InvalidInput when every record carries both the independent and  *)
(* the dependent field.                                                    *)
C4_NoRegressorErrorWhenXYPresent ==
    op = "batchPredict" =>
        /\ err # "InsufficientData"
        /\ (\A i \in 1..Len(InputItems) :
                HasOwn(InputRecord(i), args.xKey) /\ HasOwn(InputRecord(i), args.yKey))
              => err \notin RegressorErrors

(* A batchPredict over records that all carry both fields, one group of    *)
(* which was fitted.                                                       *)
C4_Witness ==
    /\ op = "batchPredict"
    /\ Returned
    /\ Len(OutputItems) > 0
    /\ \A i \in 1..Len(InputItems) :
          HasOwn(InputRecord(i), args.xKey) /\ HasOwn(InputRecord(i), args.yKey)

-----------------------------------------------------------------------------
(* C7: group(R, K) returns exactly one entry per distinct composite key    *)
(* among the records that have all fields of K, in order of first          *)
(* occurrence; every entry holds each field of K as a scalar equal to its  *)
(* members' value for it, and holds no field other than the fields of K    *)
(* and the non-key fields of its members, whatever the field names are.    *)
C7_OneEntryPerKey ==
    (op = "group" /\ Returned) =>
        /\ Len(OutputItems) = Len(Leaders)
        /\ \A j \in 1..Len(OutputItems) :
              LET ms == Members(Leaders[j])
              IN  /\ \A k \in Range(KeyNames) :
                        /\ HasOwn(OutputObject(j), k)
                        /\ \A i \in Range(ms) :
                              Get(OutputObject(j), k) = Get(InputRecord(i), k)
                  /\ FieldsOf(OutputObject(j)) \subseteq
                        Range(KeyNames) \cup UNION {FieldsOf(InputRecord(i)) : i \in Range(ms)}

-----------------------------------------------------------------------------
(* C2: for a record sequence R whose records all have the fields of K,     *)
(* ungroup(group(R, K), K) is the same multiset of records as R, up to     *)
(* field order.                                                            *)

(* The records group was called on; ungroup runs on its result. *)
DataRecord(i) == heap0[heap0[data.n].elems[i].n]

DataLength == Len(heap0[data.n].elems)

SameBag(s, t) ==
    /\ Len(s) = Len(t)
    /\ \A m \in Range(s) \cup Range(t) :
          Cardinality({i \in 1..Len(s) : s[i] = m}) = Cardinality({i \in 1..Len(t) : t[i] = m})

C2_RoundTrip ==
    (/\ op \in {"group", "ungroup"}
     /\ \A i \in 1..DataLength : \A k \in Range(KeyNames) : HasOwn(DataRecord(i), k))
    => /\ err = "none"
       /\ op = "ungroup" =>
             SameBag([i \in 1..DataLength |-> AsMap(heap0, DataRecord(i))],
                     [i \in 1..Len(OutputItems) |-> AsMap(heap, OutputObject(i))])

-----------------------------------------------------------------------------
(* C1 and C10: what batchPredict returns.                                  *)

NewXsOf == heap0[args.newXs.n].elems

(* The members of a group that carry the independent field. *)
Observations(leader) ==
    SelectSeq(Members(leader), LAMBDA i : HasOwn(InputRecord(i), args.xKey))

(* The groups with at least two member records, in first-occurrence order. *)
Survivors == SelectSeq(Leaders, LAMBDA l : Len(Members(l)) >= 2)

RECURSIVE SumOver(_, _, _)
SumOver(ms, Term(_), i) ==
    IF i > Len(ms) THEN 0 ELSE Term(ms[i]) + SumOver(ms, Term, i + 1)

XOf(i) == Get(InputRecord(i), args.xKey).n

YOf(i) == Get(InputRecord(i), args.yKey).n

(* The least-squares line through a group's points, by the normal          *)
(* equations: slope (n Sxy - Sx Sy) / (n Sxx - Sx Sx), intercept           *)
(* (Sy - slope Sx) / n.  Defined when the x values are not all equal.      *)
LineDefined(ms) ==
    Len(ms) * SumOver(ms, LAMBDA i : XOf(i) * XOf(i), 1)
        # SumOver(ms, XOf, 1) * SumOver(ms, XOf, 1)

LineAt(ms, newX) ==
    LET n == Len(ms)
        sx == SumOver(ms, XOf, 1)
        sy == SumOver(ms, YOf, 1)
        sxy == SumOver(ms, LAMBDA i : XOf(i) * YOf(i), 1)
        sxx == SumOver(ms, LAMBDA i : XOf(i) * XOf(i), 1)
        slope == Rat(n * sxy - sx * sy, n * sxx - sx * sx)
    IN  NumAdd(NumMul(slope, newX), NumDiv(NumSub(Num(sy), NumMul(slope, Num(sx))), Num(n)))

(* C1: when every record carries all key fields, xField and yField, the    *)
(* result holds exactly one record per (group of at least 2 members,       *)
(* element of newXs), by group in first-occurrence order and within a      *)
(* group by position in newXs; each record carries the group's key-field   *)
(* values, the newX as xField and the fitted line's value at it as yField. *)
C1_OneRecordPerGroupAndNewX ==
    (/\ op = "batchPredict"
     /\ \A i \in 1..Len(InputItems) :
           /\ Qualifies(i)
           /\ HasOwn(InputRecord(i), args.xKey)
           /\ HasOwn(InputRecord(i), args.yKey))
    => /\ Returned
       /\ Len(OutputItems) = Len(Survivors) * Len(NewXsOf)
       /\ \A a \in 1..Len(Survivors) : \A b \in 1..Len(NewXsOf) :
             LET o == OutputObject((a - 1) * Len(NewXsOf) + b)
                 ms == Members(Survivors[a])
             IN  /\ FieldsOf(o) = Range(KeyNames) \cup {args.xKey, args.yKey}
                 /\ \A k \in Range(KeyNames) : Get(o, k) = Get(InputRecord(Survivors[a]), k)
                 /\ Get(o, args.xKey) = NewXsOf[b]
                 /\ LineDefined(ms) => Get(o, args.yKey) = LineAt(ms, NewXsOf[b])

(* C10: batchPredict discards every group holding fewer than 2             *)
(* observations without an error: when no group holds 2 observations (in   *)
(* particular when every group has exactly one record) the result is the   *)
(* empty sequence, and a returned result has records for the groups with   *)
(* 2 or more observations only.                                            *)
C10_SmallGroupsDiscarded ==
    op = "batchPredict" =>
        /\ (\A l \in Range(Leaders) : Len(Observations(l)) < 2)
              => (Returned /\ OutputItems = <<>>)
        /\ Returned =>
              Len(OutputItems) =
                 Len(NewXsOf) * Len(SelectSeq(Leaders, LAMBDA l : Len(Observations(l)) >= 2))

-----------------------------------------------------------------------------
(* C11.  Numbers are exact rationals here, so "on one line" and "returns   *)
(* a*x' + b" are equalities; the rounding of IEEE doubles is not modelled. *)

XValues == heap0[args.array.n].elems

YValues == heap0[args.newXs.n].elems

(* The line through the i-th and the j-th point, for x_i # x_j. *)
SlopeThrough(i, j) ==
    NumDiv(NumSub(YValues[j], YValues[i]), NumSub(XValues[j], XValues[i]))

InterceptThrough(i, j) == NumSub(YValues[i], NumMul(SlopeThrough(i, j), XValues[i]))

(* Every point lies on y = a*x + b. *)
AllOnLine(a, b) ==
    \A k \in 1..Len(XValues) : YValues[k] = NumAdd(NumMul(a, XValues[k]), b)

-----------------------------------------------------------------------------
(* C12.  A number is non-finite when it is NaN or an infinity.             *)

NonFinite(v) == v.t = "number" /\ v.d = 0

(* The Regressor's part of C12: two or more points whose x values are all  *)
(* equal raise no error; the slope is the quotient by a zero denominator   *)
(* and what the returned function returns is non-finite.                   *)
C12_ConstantXNotFinite ==
    (/\ op \in {"linearRegressionPredictor", "predictor"}
     /\ Len(XValues) = Len(YValues)
     /\ Len(XValues) >= 2
     /\ \A i, j \in 1..Len(XValues) : XValues[i] = XValues[j])
    => /\ err = "none"
       /\ NonFinite(fit.slope)
       /\ op = "predictor" => NonFinite(ret)

(* The members of a group all have the same value of xField. *)
ConstantX(ms) ==
    \A i, j \in 1..Len(ms) :
        Get(InputRecord(ms[i]), args.xKey) = Get(InputRecord(ms[j]), args.xKey)

(* C12: when the x values are all identical (two or more points) no error  *)
(* is raised and every prediction is non-finite; batchPredict, called on   *)
(* records that all carry the key fields, xField and yField, neither       *)
(* filters nor rejects a group of two or more members with one x value: it *)
(* returns, for that group, one record per element of newXs whose yField   *)
(* is non-finite.                                                          *)
C12_ConstantXGroupPredicted ==
    (/\ op = "batchPredict"
     /\ \A i \in 1..Len(InputItems) :
           /\ Qualifies(i)
           /\ HasOwn(InputRecord(i), args.xKey)
           /\ HasOwn(InputRecord(i), args.yKey))
    => \A a \in 1..Len(Survivors) :
          ConstantX(Members(Survivors[a])) =>
             /\ Returned
             /\ Len(OutputItems) >= a * Len(NewXsOf)
             /\ \A b \in 1..Len(NewXsOf) :
                   LET o == OutputObject((a - 1) * Len(NewXsOf) + b)
                   IN  /\ Get(o, args.xKey) = NewXsOf[b]
                       /\ NonFinite(Get(o, args.yKey))

-----------------------------------------------------------------------------
(* C13: the two batchPredict on the same arguments.                        *)

(* What batchPredict of src/index.js does on the arguments of the call. *)
Direct == batchPredict(heap0, args.array, args.K, args.xKey, args.yKey, args.newXs)

(* The records of a returned array, as maps from field to value. *)
RecordsOf(h, r) == [i \in 1..Len(h[r.n].elems) |-> AsMap(h, h[h[r.n].elems[i].n])]

(* C13: on records that all carry the key fields, xField and yField, the   *)
(* batchPredict of src/unnamed/part_000 and the batchPredict of            *)
(* src/index.js return the same sequence of records: in both, each group   *)
(* of two or more members has one record per element of newXs, whose       *)
(* xField is that element.                                                 *)
C13_VariantsAgree ==
    (/\ op = "batchPredictWithUtility"
     /\ \A i \in 1..Len(InputItems) :
           /\ Qualifies(i)
           /\ HasOwn(InputRecord(i), args.xKey)
           /\ HasOwn(InputRecord(i), args.yKey))
    => /\ err = Direct.err
       /\ Returned =>
             /\ RecordsOf(heap, ret) = RecordsOf(Direct.heap, Direct.ret)
             /\ Len(OutputItems) = Len(Survivors) * Len(NewXsOf)
             /\ \A a \in 1..Len(Survivors) : \A b \in 1..Len(NewXsOf) :
                   Get(OutputObject((a - 1) * Len(NewXsOf) + b), args.xKey) = NewXsOf[b]

====
